---- MODULE Spec2Model ----
(***************************************************************************)
(* A model of the Persian sales chatbot's query-understanding and          *)
(* retrieval-fusion pipeline (megachat/app): the LangGraph orchestrator    *)
(* RAGPipeline, the response cache, the query expander and the             *)
(* multi-query retriever.                                                  *)
(*                                                                         *)
(* Text is a sequence of symbols.  A symbol is a one-character string for  *)
(* the characters the parsers inspect (digits, ".", ")", bullets, blank,   *)
(* newline) and a transliterated word for a run of Persian letters.        *)
(* Relevance scores are integers (score levels); confidence is counted in  *)
(* tenths.                                                                 *)
(***************************************************************************)
EXTENDS Integers, Sequences, FiniteSets, TLC

VARIABLES
    cache,      \* the redis store: a function from the keys it holds to the stored texts
    pc,         \* per run: the graph node about to execute, "idle", "End" or "failed"
    state,      \* per run: the state dict threaded through the graph
    trace,      \* per run: the nodes executed so far, in order
    calls,      \* per run: how often each collaborator was invoked, and the
                \* filters its searches were issued with
    xp,         \* query expander harness: inputs and result of one call
    fz,         \* fusion harness: inputs, all_results and result of one call of search
    rr,         \* reranker harness: inputs and results of a call of rerank and of its repetition
    iq          \* classifier harness: text and result of one call of parse_query

vars == <<cache, pc, state, trace, calls, xp, fz, rr, iq>>

(***************************************************************************)
(* Bounds of the model.                                                    *)
(***************************************************************************)
NumRuns == 2          \* concurrent requests
MaxContentLen == 4    \* symbols in a text returned by the generation service
MaxVariations == 2    \* query variations handed to one search
NumProducts == 2      \* product ids in the vector index
MaxScore == 2         \* relevance score levels 1..MaxScore
MaxHits == 2          \* hits the index holds for one variation
MaxIntentWords == 3   \* words of a classifier text made of intent words
MaxSlotWords == 4     \* words of a classifier text made of slot words

(***************************************************************************)
(* Settings (core/config.py).                                              *)
(***************************************************************************)
RETRIEVAL_TOP_K == 10
RERANK_TOP_K == 3
QUERY_VARIATIONS == 3

(***************************************************************************)
(* Python string operations, on sequences of symbols.                      *)
(***************************************************************************)
Whitespace == {" ", "\n"}
DigitSeq == <<"0", "1", "2", "3", "4", "5", "6", "7", "8", "9">>
Digits == {DigitSeq[i] : i \in DOMAIN DigitSeq}
Bullets == {"-", "*"}     \* "-" and "*"; the third bullet of the source behaves as "*"

\* str.lstrip(chars)
RECURSIVE LStripChars(_, _)
LStripChars(s, chars) ==
    IF s # <<>> /\ Head(s) \in chars THEN LStripChars(Tail(s), chars) ELSE s

\* str.rstrip(chars)
RECURSIVE RStripChars(_, _)
RStripChars(s, chars) ==
    IF s # <<>> /\ s[Len(s)] \in chars
    THEN RStripChars(SubSeq(s, 1, Len(s) - 1), chars)
    ELSE s

\* str.strip()
Strip(s) == RStripChars(LStripChars(s, Whitespace), Whitespace)

\* index of the first occurrence of symbol c in s, 0 when there is none
RECURSIVE FindFrom(_, _, _)
FindFrom(s, c, i) ==
    IF i > Len(s) THEN 0
    ELSE IF s[i] = c THEN i
    ELSE FindFrom(s, c, i + 1)

Find(s, c) == FindFrom(s, c, 1)

\* str.split(c, 1): at most one cut, at the first c
SplitOnce(s, c) ==
    LET i == Find(s, c)
    IN  IF i = 0 THEN <<s>>
        ELSE <<SubSeq(s, 1, i - 1), SubSeq(s, i + 1, Len(s))>>

\* str.split(c): every c cuts, empty pieces kept
RECURSIVE SplitAll(_, _)
SplitAll(s, c) ==
    LET i == Find(s, c)
    IN  IF i = 0 THEN <<s>>
        ELSE <<SubSeq(s, 1, i - 1)>> \o SplitAll(SubSeq(s, i + 1, Len(s)), c)

\* str.split(): cut at runs of whitespace, no empty pieces
RECURSIVE SplitWS(_)
SplitWS(s) ==
    LET t == LStripChars(s, Whitespace)
        RECURSIVE WordEnd(_)
        WordEnd(i) == IF i > Len(t) \/ t[i] \in Whitespace THEN i - 1 ELSE WordEnd(i + 1)
    IN  IF t = <<>> THEN <<>>
        ELSE LET e == WordEnd(1)
             IN  <<SubSeq(t, 1, e)>> \o SplitWS(SubSeq(t, e + 1, Len(t)))

\* " ".join(words)
RECURSIVE JoinSpace(_)
JoinSpace(words) ==
    IF words = <<>> THEN <<>>
    ELSE IF Len(words) = 1 THEN words[1]
    ELSE words[1] \o <<" ">> \o JoinSpace(Tail(words))

\* list[:n] for n >= 0
Take(s, n) == SubSeq(s, 1, IF n < Len(s) THEN n ELSE Len(s))

(***************************************************************************)
(* Slot/intent classifier (services/intent.py).                            *)
(* A pattern is a sequence of symbols; "\\s*" and "\\s+" stand for the     *)
(* regular expression's optional and mandatory whitespace.                 *)
(***************************************************************************)
IntentOrder ==
    <<"PRICE_CHECK", "AVAILABILITY", "FEATURE_INQUIRY", "COMPARISON",
      "SHIPPING", "PURCHASE", "GREETING">>

intent_patterns ==
    [PRICE_CHECK |->
        <<  <<"gheymat">>, <<"cheghadr">>, <<"chand", " ", "toman">>,
            <<"chand", "e">>, <<"hazine">>, <<"chand", " ", "pul">>  >>,
     AVAILABILITY |->
        <<  <<"mojud">>, <<"dar", " ", "dastres">>, <<"dar", "id">>,
            <<"hast">>, <<"vojud", " ", "dar">>,
            <<"mi", "\\s*", "tunam", "\\s+", "bekharam">>  >>,
     FEATURE_INQUIRY |->
        <<  <<"moshakhasat">>, <<"vizhegi">>, <<"durbin">>, <<"batri">>,
            <<"hafeze">>, <<"ram">>, <<"megapixel">>, <<"inch">>,
            <<"noskhe">>, <<"model">>  >>,
     COMPARISON |->
        <<  <<"fargh">>, <<"tafavot">>, <<"moghayese">>, <<"behtar">>,
            <<"ya">>, <<"kodum">>, <<"kodam">>  >>,
     SHIPPING |->
        <<  <<"ersal">>, <<"tahvil">>, <<"chand", " ", "ruz">>, <<"zaman">>,
            <<"post">>, <<"mi", "\\s*", "rese">>, <<"mi", "rese">>  >>,
     PURCHASE |->
        <<  <<"mi", "\\s*", "kham", "\\s+", "bekharam">>, <<"kharid">>,
            <<"sefaresh">>, <<"bekharam">>  >>,
     GREETING |->
        <<  <<"salam">>, <<"dorud">>, <<"sobh", " ", "bekheyr">>,
            <<"asr", " ", "bekheyr">>, <<"mamnun">>, <<"tashakor">>  >>]

\* slot_patterns: the units of a quantity and of a price, the colours, the brands
QuantityUnits == {"adad", "ta"}
PriceUnits == {"toman", "milyun", "hezar"}
ColorWords ==
    <<  <<"sefid">>, <<"siah">>, <<"meshki">>, <<"ghermez">>, <<"abi">>, <<"sabz">>,
        <<"talayi">>, <<"noghre", "\\s*", "i">>, <<"surati">>  >>
BrandWords ==
    <<  <<"samsung">>, <<"apple">>, <<"xiaomi">>, <<"al", "\\s*", "ji">>, <<"asus">>,
        <<"nokia">>, <<"huawei">>  >>

\* does pattern p match text t starting at position i (re.match at i)
RECURSIVE MatchAt(_, _, _)
MatchAt(p, t, i) ==
    IF p = <<>> THEN TRUE
    ELSE IF Head(p) = "\\s*"
         THEN \/ MatchAt(Tail(p), t, i)
              \/ i <= Len(t) /\ t[i] \in Whitespace /\ MatchAt(p, t, i + 1)
    ELSE IF Head(p) = "\\s+"
         THEN i <= Len(t) /\ t[i] \in Whitespace
              /\ MatchAt(<<"\\s*">> \o Tail(p), t, i + 1)
    ELSE i <= Len(t) /\ t[i] = Head(p) /\ MatchAt(Tail(p), t, i + 1)

\* re.search(p, t) finds a match
Search_re(p, t) == \E i \in 1..(Len(t) + 1) : MatchAt(p, t, i)

\* str.lower(): the symbols of the model carry no upper-case letters
Lower(t) == [i \in DOMAIN t |-> t[i]]

\* the score of one intent: the number of its patterns found in the text
IntentScore(intent, t) ==
    Cardinality({j \in DOMAIN intent_patterns[intent] :
                    Search_re(intent_patterns[intent][j], t)})

\* faulty variant of detect_intent: of the intents with the largest score the last wins
detect_intent_last_max(text) ==
    LET text_lower == Lower(text)
        scores == [k \in DOMAIN IntentOrder |-> IntentScore(IntentOrder[k], text_lower)]
        best == CHOOSE k \in DOMAIN IntentOrder :
                    /\ \A j \in DOMAIN IntentOrder : scores[j] <= scores[k]
                    /\ \A j \in (k + 1)..Len(IntentOrder) : scores[j] < scores[k]
    IN  IF \E k \in DOMAIN IntentOrder : scores[k] > 0
        THEN IntentOrder[best]
        ELSE "GENERAL"

\* max(scores, key=scores.get): the first key, in dict order, with the largest score
detect_intent(text) ==
    LET text_lower == Lower(text)
        scores == [k \in DOMAIN IntentOrder |-> IntentScore(IntentOrder[k], text_lower)]
        best == CHOOSE k \in DOMAIN IntentOrder :
                    /\ \A j \in DOMAIN IntentOrder : scores[j] <= scores[k]
                    /\ \A j \in 1..(k - 1) : scores[j] < scores[k]
    IN  IF \E k \in DOMAIN IntentOrder : scores[k] > 0
        THEN IntentOrder[best]
        ELSE "GENERAL"

\* the first position at or after i that holds no whitespace
RECURSIVE SkipWS(_, _)
SkipWS(t, i) == IF i <= Len(t) /\ t[i] \in Whitespace THEN SkipWS(t, i + 1) ELSE i

\* the position after the match of p at i, 0 when p does not match there
\* (whitespace runs are followed by a letter in every slot pattern)
RECURSIVE MatchEnd(_, _, _)
MatchEnd(p, t, i) ==
    IF p = <<>> THEN i
    ELSE IF Head(p) = "\\s*" THEN MatchEnd(Tail(p), t, SkipWS(t, i))
    ELSE IF i <= Len(t) /\ t[i] = Head(p) THEN MatchEnd(Tail(p), t, i + 1)
    ELSE 0

\* re.search of an alternation: the leftmost match, the first alternative
\* that matches there; group(1) is the matched text
SearchGroup(alts, t) ==
    LET at(i) == {a \in DOMAIN alts : MatchEnd(alts[a], t, i) # 0}
        hits == {i \in DOMAIN t : at(i) # {}}
    IN  IF hits = {} THEN [found |-> FALSE, text |-> <<>>]
        ELSE LET i == CHOOSE x \in hits : \A y \in hits : x <= y
                 a == CHOOSE x \in at(i) : \A y \in at(i) : x <= y
             IN  [found |-> TRUE, text |-> SubSeq(t, i, MatchEnd(alts[a], t, i) - 1)]

\* int(digits)
DigitValue(d) == (CHOOSE i \in DOMAIN DigitSeq : DigitSeq[i] = d) - 1

RECURSIVE ToInt(_)
ToInt(ds) ==
    IF ds = <<>> THEN 0
    ELSE ToInt(SubSeq(ds, 1, Len(ds) - 1)) * 10 + DigitValue(ds[Len(ds)])

\* the last position of the run of digits that starts at i
RECURSIVE DigitRunEnd(_, _)
DigitRunEnd(t, i) ==
    IF i + 1 <= Len(t) /\ t[i + 1] \in Digits THEN DigitRunEnd(t, i + 1) ELSE i

\* (\d+)\s*(unit|...) at position i: [ok, number, unit, next]
NumberUnitAt(t, i, units) ==
    LET e == DigitRunEnd(t, i)
        j == SkipWS(t, e + 1)
    IN  IF i <= Len(t) /\ t[i] \in Digits /\ j <= Len(t) /\ t[j] \in units
        THEN [ok |-> TRUE, number |-> ToInt(SubSeq(t, i, e)), unit |-> t[j], next |-> j + 1]
        ELSE [ok |-> FALSE, number |-> 0, unit |-> "", next |-> i + 1]

\* re.findall: the matches from position i on, left to right, not overlapping
RECURSIVE FindAllNumberUnit(_, _, _)
FindAllNumberUnit(t, i, units) ==
    IF i > Len(t) THEN <<>>
    ELSE LET m == NumberUnitAt(t, i, units)
         IN  IF m.ok
             THEN <<m>> \o FindAllNumberUnit(t, m.next, units)
             ELSE FindAllNumberUnit(t, i + 1, units)

\* faulty variant of PriceOf: the million unit is read as the thousand unit
PriceOf_no_million(m) ==
    IF m.unit \in {"milyun", "hezar"} THEN m.number * 1000 ELSE m.number

\* lines 127-134: the value of one price mention
PriceOf(m) ==
    IF m.unit = "milyun" THEN m.number * 1000000
    ELSE IF m.unit = "hezar" THEN m.number * 1000
    ELSE m.number

MinOf(S) == CHOOSE x \in S : \A y \in S : x <= y
MaxOf(S) == CHOOSE x \in S : \A y \in S : y <= x

\* lines 141-151: the neighbours of the tokens "ya" and "va"
ComparisonItems(text) ==
    LET tokens == SplitWS(text)
        marks == {i \in DOMAIN tokens :
                    tokens[i] \in {<<"ya">>, <<"va">>} /\ i > 1 /\ i < Len(tokens)}
    IN  IF \E k \in DOMAIN text : text[k] \in {"ya", "va"}
        THEN UNION {{tokens[i - 1], tokens[i + 1]} : i \in marks}
        ELSE {}

\* Slots(): every field None.  set holds the names of the fields that are
\* not None; a field whose name is not in set holds a placeholder.
NoSlots ==
    [set |-> {}, quantity |-> 0, color |-> <<>>, brand |-> <<>>,
     price_range |-> [min |-> 0, max |-> 0], comparison_items |-> {}]

extract_slots(text) ==
    LET quantity == FindAllNumberUnit(text, 1, QuantityUnits)
        color == SearchGroup(ColorWords, text)
        brand == SearchGroup(BrandWords, text)
        matches == FindAllNumberUnit(text, 1, PriceUnits)
        prices == {PriceOf(matches[k]) : k \in DOMAIN matches}
        items == ComparisonItems(text)
    IN  [set |-> {f \in {"quantity"} : quantity # <<>>}
                 \cup {f \in {"color"} : color.found}
                 \cup {f \in {"brand"} : brand.found}
                 \cup {f \in {"price_range"} : matches # <<>>}
                 \cup {f \in {"comparison_items"} : items # {}},
         quantity |-> IF quantity # <<>> THEN quantity[1].number ELSE 0,
         color |-> color.text,
         brand |-> brand.text,
         price_range |-> IF matches = <<>> THEN [min |-> 0, max |-> 0]
                         ELSE IF Len(matches) = 1
                              THEN [min |-> 0, max |-> PriceOf(matches[1])]
                              ELSE [min |-> MinOf(prices), max |-> MaxOf(prices)],
         comparison_items |-> items]

\* the truth value Python gives a slot field
SlotTruthy(slots, f) ==
    /\ f \in slots.set
    /\ f = "quantity" => slots.quantity # 0
    /\ f \in {"color", "brand"} => slots[f] # <<>>

\* confidence in tenths: 5, +2 for a non-GENERAL intent, +1 per truthy slot up to +3
calculate_confidence(intent, slots) ==
    LET slot_count ==
            Cardinality({f \in {"product_name", "quantity", "color", "brand",
                                "price_range", "comparison_items"} : SlotTruthy(slots, f)})
        bonus == IF slot_count < 3 THEN slot_count ELSE 3
        confidence == 5 + (IF intent # "GENERAL" THEN 2 ELSE 0) + bonus
    IN  IF confidence < 10 THEN confidence ELSE 10

parse_query(normalized_text, original_text) ==
    LET intent == detect_intent(normalized_text)
        slots == extract_slots(normalized_text)
    IN  [original_text |-> original_text,
         normalized_text |-> normalized_text,
         intent |-> intent,
         slots |-> slots,
         confidence |-> calculate_confidence(intent, slots)]

(***************************************************************************)
(* Preprocessor (services/preprocessor.py): Hazm's character               *)
(* normalisation leaves the model's symbols as they are; the whitespace    *)
(* collapse is modelled in full.                                           *)
(***************************************************************************)
normalize(text) ==
    IF text = <<>> THEN <<>> ELSE JoinSpace(SplitWS(text))

preprocess_text(text) == normalize(text)

(***************************************************************************)
(* Query expander (services/retriever.py, generate_query_variations).      *)
(* llm is the outcome of the generation call: [ok, content].               *)
(***************************************************************************)
\* faulty variant of ParseLine: the parsed variation is kept whatever it is
ParseLine_unfiltered(raw, query) ==
    LET line == Strip(raw)
    IN  IF line # <<>> /\ (Head(line) \in Digits \/ Head(line) \in Bullets)
        THEN LET parts == IF Find(line, ".") # 0 THEN SplitOnce(line, ".")
                          ELSE IF Find(line, ")") # 0 THEN SplitOnce(line, ")")
                          ELSE <<line>>
             IN  IF Len(parts) > 1
                 THEN <<Strip(parts[2])>>
                 ELSE <<LStripChars(Strip(parts[1]), Bullets \cup {" "})>>
        ELSE <<>>

\* what one line of the generation output adds to the variations
ParseLine(raw, query) ==
    LET line == Strip(raw)
    IN  IF line # <<>> /\ (Head(line) \in Digits \/ Head(line) \in Bullets)
        THEN LET parts == IF Find(line, ".") # 0 THEN SplitOnce(line, ".")
                          ELSE IF Find(line, ")") # 0 THEN SplitOnce(line, ")")
                          ELSE <<line>>
                 variation == IF Len(parts) > 1
                              THEN Strip(parts[2])
                              ELSE LStripChars(Strip(parts[1]), Bullets \cup {" "})
             IN  IF variation # <<>> /\ variation # query
                 THEN <<variation>>
                 ELSE <<>>
        ELSE <<>>

RECURSIVE ParseLines(_, _)
ParseLines(lines, query) ==
    IF lines = <<>> THEN <<>>
    ELSE ParseLine(Head(lines), query) \o ParseLines(Tail(lines), query)

\* faulty variant of generate_query_variations: a failed generation yields no variation
generate_query_variations_no_fallback(query, num_variations, llm) ==
    LET num == IF num_variations # 0 THEN num_variations ELSE QUERY_VARIATIONS
    IN  IF llm.ok
        THEN Take(<<query>> \o ParseLines(SplitAll(Strip(llm.content), "\n"), query), num)
        ELSE <<>>

\* num_variations = 0 stands for the default argument None
generate_query_variations(query, num_variations, llm) ==
    LET num == IF num_variations # 0 THEN num_variations ELSE QUERY_VARIATIONS
    IN  IF llm.ok
        THEN LET lines == SplitAll(Strip(llm.content), "\n")
                 variations == <<query>> \o ParseLines(lines, query)
             IN  Take(variations, num)
        ELSE <<query>>

(***************************************************************************)
(* Vector retriever (services/retriever.py, search and retrieve).          *)
(* The outcome of one variation is [kind, hits]: EmbedError (embed_text    *)
(* raised), SearchError (qdrant.search raised) or Hits(h), h the sequence  *)
(* of [id, score] in the index's order.  all_results is the dict as the    *)
(* sequence of its entries in insertion order; rank 0 is an unset rank.    *)
(***************************************************************************)
EmbedError == [kind |-> "embed_error", hits |-> <<>>]
SearchError == [kind |-> "search_error", hits |-> <<>>]
Hits(h) == [kind |-> "hits", hits |-> h]

HasId(all, id) == \E k \in DOMAIN all : all[k].id = id

IndexOfId(all, id) == CHOOSE k \in DOMAIN all : all[k].id = id

\* faulty variant of MergeHit: the latest score of an id overwrites the stored one
MergeHit_last_wins(all, hit) ==
    IF ~HasId(all, hit.id)
    THEN Append(all, [id |-> hit.id, score |-> hit.score, rank |-> 0])
    ELSE [all EXCEPT ![IndexOfId(all, hit.id)] =
                [id |-> hit.id, score |-> hit.score, rank |-> 0]]

\* faulty variant of MergeHit: the first score of an id is kept
MergeHit_first_wins(all, hit) ==
    IF ~HasId(all, hit.id)
    THEN Append(all, [id |-> hit.id, score |-> hit.score, rank |-> 0])
    ELSE all

\* lines 147-154: insert a new id, or overwrite a stored entry with a higher score
MergeHit(all, hit) ==
    IF ~HasId(all, hit.id)
    THEN Append(all, [id |-> hit.id, score |-> hit.score, rank |-> 0])
    ELSE LET k == IndexOfId(all, hit.id)
         IN  IF hit.score > all[k].score
             THEN [all EXCEPT ![k] = [id |-> hit.id, score |-> hit.score, rank |-> 0]]
             ELSE all

RECURSIVE MergeHits(_, _)
MergeHits(all, hits) ==
    IF hits = <<>> THEN all
    ELSE MergeHits(MergeHit(all, Head(hits)), Tail(hits))

\* faulty variant of InsertDesc: a document goes in front of those of equal score
RECURSIVE InsertDesc_unstable(_, _)
InsertDesc_unstable(sorted, d) ==
    IF sorted = <<>> THEN <<d>>
    ELSE IF Head(sorted).score > d.score
         THEN <<Head(sorted)>> \o InsertDesc_unstable(Tail(sorted), d)
         ELSE <<d>> \o sorted

\* sorted(docs, key=score, reverse=True): stable, equal scores keep their order
RECURSIVE InsertDesc(_, _)
InsertDesc(sorted, d) ==
    IF sorted = <<>> THEN <<d>>
    ELSE IF Head(sorted).score >= d.score
         THEN <<Head(sorted)>> \o InsertDesc(Tail(sorted), d)
         ELSE <<d>> \o sorted

RECURSIVE SortDesc(_)
SortDesc(docs) ==
    IF docs = <<>> THEN <<>>
    ELSE InsertDesc(SortDesc(SubSeq(docs, 1, Len(docs) - 1)), docs[Len(docs)])

\* doc.rank = i + 1
AssignRanks(docs) == [i \in DOMAIN docs |-> [docs[i] EXCEPT !.rank = i]]

\* top_k = 0 stands for the default argument None
EffectiveTopK(top_k) == IF top_k # 0 THEN top_k ELSE RETRIEVAL_TOP_K

\* faulty variant of SortTruncateRank: the list is cut before it is sorted
SortTruncateRank_cut_first(all, top_k) ==
    AssignRanks(SortDesc(Take(all, EffectiveTopK(top_k))))

\* lines 160-171
SortTruncateRank(all, top_k) ==
    AssignRanks(Take(SortDesc(all), EffectiveTopK(top_k)))

\* faulty variant of SearchOne: a failed search drops what was merged so far
SearchOne_reset_on_error(all, outcome) ==
    IF outcome.kind = "search_error" THEN <<>> ELSE MergeHits(all, outcome.hits)

\* one pass of the loop body over a variation whose embedding succeeded
SearchOne(all, outcome) ==
    IF outcome.kind = "search_error" THEN all ELSE MergeHits(all, outcome.hits)

RECURSIVE SearchLoop(_, _)
SearchLoop(all, outcomes) ==
    IF outcomes = <<>> THEN all
    ELSE SearchLoop(SearchOne(all, Head(outcomes)), Tail(outcomes))

\* the whole of search: [raised, docs]
search(outcomes, top_k) ==
    LET n == Len(outcomes)
        bad == {i \in 1..n : outcomes[i].kind = "embed_error"}
    IN  IF bad # {}
        THEN [raised |-> TRUE, docs |-> <<>>]
        ELSE [raised |-> FALSE,
              docs |-> SortTruncateRank(SearchLoop(<<>>, outcomes), top_k)]

\* faulty variant of BuildFilters: the color slot is left out of the filters
BuildFilters_brand_only(has_slots, slots) ==
    LET keys == IF has_slots
                THEN {k \in {"brand"} : SlotTruthy(slots, k)}
                ELSE {}
    IN  [k \in keys |-> slots[k]]

\* retrieve, lines 188-197: the equality filters built from the slots, as a
\* function from field to value; the empty function is "no filter" (None)
BuildFilters(has_slots, slots) ==
    LET keys == IF has_slots
                THEN {k \in {"brand", "color"} : SlotTruthy(slots, k)}
                ELSE {}
    IN  [k \in keys |-> slots[k]]

\* search, lines 125-133: the query_filter handed to qdrant.search; must is
\* the set of its equality conditions, has_filter = FALSE is None
QueryFilter(filters) ==
    [has_filter |-> DOMAIN filters # {},
     must |-> {[key |-> k, value |-> filters[k]] : k \in DOMAIN filters}]

\* search, lines 122-143: the calls of qdrant.search the loop issues, one per
\* variation up to the first variation whose embedding fails
IssuedSearches(variations, outcomes, filters) ==
    LET bad == {i \in DOMAIN outcomes : outcomes[i].kind = "embed_error"}
        n == IF bad = {} THEN Len(outcomes)
             ELSE (CHOOSE i \in bad : \A j \in bad : i <= j) - 1
    IN  [i \in 1..n |-> [query |-> variations[i], query_filter |-> QueryFilter(filters)]]

\* faulty variant of Rescore: the documents keep their retrieval scores
Rescore_keep(documents, scorer) == documents

(***************************************************************************)
(* Reranker (services/reranker.py).  scorer is the outcome of              *)
(* model.predict: [ok, score], score a function from product id to the new *)
(* score.  The documents are rescored in place, so the caller's list sees  *)
(* the new scores and ranks too: [raised, predicted, docs, documents],      *)
(* predicted telling whether model.predict was invoked.                    *)
(***************************************************************************)
Rescore(documents, scorer) ==
    [i \in DOMAIN documents |-> [documents[i] EXCEPT !.score = scorer.score[documents[i].id]]]

\* the caller's list after the call: new scores, and new ranks for the kept documents
Aliased(rescored, kept) ==
    [i \in DOMAIN rescored |->
        IF HasId(kept, rescored[i].id)
        THEN kept[IndexOfId(kept, rescored[i].id)]
        ELSE rescored[i]]

\* top_k = 0 stands for the default argument None
rerank(documents, top_k, scorer) ==
    IF documents = <<>>
    THEN [raised |-> FALSE, predicted |-> FALSE, docs |-> <<>>, documents |-> documents]
    ELSE IF ~scorer.ok
    THEN [raised |-> TRUE, predicted |-> TRUE, docs |-> <<>>, documents |-> documents]
    ELSE LET k == IF top_k # 0 THEN top_k ELSE RERANK_TOP_K
             rescored == Rescore(documents, scorer)
             kept == AssignRanks(Take(SortDesc(rescored), k))
         IN  [raised |-> FALSE, predicted |-> TRUE, docs |-> kept,
              documents |-> Aliased(rescored, kept)]

(***************************************************************************)
(* Response generator (services/generator.py, generate).                   *)
(***************************************************************************)
Apology == <<"apology">>

\* faulty variant of generate: a failed generation yields an empty response
generate_no_apology(llm) == IF llm.ok THEN Strip(llm.content) ELSE <<>>

\* lines 174-180: the stripped content, or the apology when the call raises
generate(llm) == IF llm.ok THEN Strip(llm.content) ELSE Apology

(***************************************************************************)
(* Cache service (services/cache.py).  The store is a function whose       *)
(* domain is the set of keys it holds.                                     *)
(***************************************************************************)
\* sha256 of the text: a tag in front of the text it digests
hash_query(text) == <<"sha256">> \o text

ResponseKey(query) == <<"response:">> \o hash_query(query)

\* redis.get: [found, value]; found = FALSE is None
get_cached_response(store, query) ==
    LET key == ResponseKey(query)
    IN  IF key \in DOMAIN store
        THEN [found |-> TRUE, value |-> store[key]]
        ELSE [found |-> FALSE, value |-> <<>>]

\* redis.setex
set_cached_response(store, query, response) ==
    LET key == ResponseKey(query)
    IN  [k \in DOMAIN store \cup {key} |-> IF k = key THEN response ELSE store[k]]

\* a key's time to live running out
Expired(store, key) == [k \in DOMAIN store \ {key} |-> store[k]]

\* the truth value Python gives an Optional[str]
Truthy(cached) == cached.found /\ cached.value # <<>>

(***************************************************************************)
(* Pipeline orchestrator (chains/rag_chain.py).                            *)
(* A state dict is a record; keys is the set of keys the dict holds, and a *)
(* field whose key is absent holds a placeholder nothing reads.            *)
(***************************************************************************)
Runs == 1..NumRuns

Nodes ==
    {"check_cache", "preprocess", "detect_intent", "retrieve", "rerank",
     "generate", "cache_response"}

\* the texts the requests of the model carry
QGreeting == <<"salam", " ">>
QPrice == <<"gheymat", " ", "samsung", " ", "sefid">>
QGeneral == <<"gushi">>
Queries == {QGreeting, QPrice, QGeneral}

NoState ==
    [keys |-> {}, query |-> <<>>, from_cache |-> FALSE, final_response |-> <<>>,
     normalized_query |-> <<>>, intent |-> "", slots |-> NoSlots,
     retrieved_docs |-> <<>>, reranked_docs |-> <<>>]

\* run, lines 189-194
InitialState(query) ==
    [NoState EXCEPT !.keys = {"query", "user_id", "session_id", "from_cache"},
                    !.query = query,
                    !.from_cache = FALSE]

NoCalls ==
    [cache_get |-> 0, retriever |-> 0, reranker |-> 0, scorer |-> 0,
     generator |-> 0, cache_set |-> 0, query_filters |-> {}]

\* what the collaborators of the model answer
LLMFails == [ok |-> FALSE, content |-> <<>>]
LLMSays(text) == [ok |-> TRUE, content |-> text]
ExpanderOutcomes == {LLMFails, LLMSays(<<"1", ".", " ", "mobile">>)}
IndexOutcomes == {EmbedError, SearchError, Hits(<<[id |-> 1, score |-> 2]>>)}
ScorerFails == [ok |-> FALSE, score |-> [id \in 1..NumProducts |-> 0]]
ScorerOutcomes == {ScorerFails, [ok |-> TRUE, score |-> [id \in 1..NumProducts |-> 1]]}
GeneratorOutcomes == {LLMFails, LLMSays(<<"javab", "\n">>), LLMSays(<<" ">>)}

\* state.get(key, default)
Get(st, key, default) == IF key \in st.keys THEN st[key] ELSE default

\* faulty variant of should_use_cache: the run goes on after a hit
should_use_cache_continue(st) == "continue"

\* the conditional edge after check_cache
should_use_cache(st) ==
    IF Get(st, "from_cache", FALSE) THEN "use_cache" ELSE "continue"

\* faulty variant of should_retrieve: a greeting is retrieved for as well
should_retrieve_always(st) == "retrieve"

\* the conditional edge after detect_intent
should_retrieve(st) ==
    IF "intent" \in st.keys /\ st.intent = "GREETING" THEN "skip_retrieval" ELSE "retrieve"

\* faulty variant of NextNode: an empty rerank goes back to retrieve
NextNode_retry(node, st) ==
    CASE node = "check_cache" ->
            IF should_use_cache(st) = "use_cache" THEN "End" ELSE "preprocess"
      [] node = "preprocess" -> "detect_intent"
      [] node = "detect_intent" ->
            IF should_retrieve(st) = "retrieve" THEN "retrieve" ELSE "generate"
      [] node = "retrieve" -> "rerank"
      [] node = "rerank" ->
            IF Get(st, "reranked_docs", <<>>) = <<>> THEN "retrieve" ELSE "generate"
      [] node = "generate" -> "cache_response"
      [] node = "cache_response" -> "End"

\* the edges of the graph, lines 55-82
NextNode(node, st) ==
    CASE node = "check_cache" ->
            IF should_use_cache(st) = "use_cache" THEN "End" ELSE "preprocess"
      [] node = "preprocess" -> "detect_intent"
      [] node = "detect_intent" ->
            IF should_retrieve(st) = "retrieve" THEN "retrieve" ELSE "generate"
      [] node = "retrieve" -> "rerank"
      [] node = "rerank" -> "generate"
      [] node = "generate" -> "cache_response"
      [] node = "cache_response" -> "End"

\* faulty variant of Raise: the error is swallowed and the graph goes on
Raise_swallowed(r) ==
    /\ pc' = [pc EXCEPT ![r] = NextNode(pc[r], state[r])]
    /\ state' = state

\* a node returned st: the graph follows the edge
Advance(r, node, st) ==
    /\ state' = [state EXCEPT ![r] = st]
    /\ pc' = [pc EXCEPT ![r] = NextNode(node, st)]

\* a node raised: ainvoke, and with it run, raises and returns no state
Raise(r) ==
    /\ pc' = [pc EXCEPT ![r] = "failed"]
    /\ state' = [state EXCEPT ![r] = NoState]

Enter(r, node) ==
    /\ pc[r] = node
    /\ trace' = [trace EXCEPT ![r] = Append(@, node)]

Count(r, what) == calls' = [calls EXCEPT ![r][what] = @ + 1]

\* run is called with a query; the requests are numbered as they arrive
Run(r, query) ==
    /\ pc[r] = "idle"
    /\ \A q \in 1..(r - 1) : pc[q] # "idle"
    /\ pc' = [pc EXCEPT ![r] = "check_cache"]
    /\ state' = [state EXCEPT ![r] = InitialState(query)]
    /\ UNCHANGED <<cache, trace, calls, xp, fz, rr, iq>>

CheckCache(r, redis_ok) ==
    /\ Enter(r, "check_cache")
    /\ Count(r, "cache_get")
    /\ IF ~redis_ok \/ "query" \notin state[r].keys
       THEN Raise(r)
       ELSE LET cached_response == get_cached_response(cache, state[r].query)
                st == IF Truthy(cached_response)
                      THEN [state[r] EXCEPT !.keys = @ \cup {"final_response"},
                                            !.final_response = cached_response.value,
                                            !.from_cache = TRUE]
                      ELSE state[r]
            IN  Advance(r, "check_cache", st)
    /\ UNCHANGED <<cache, xp, fz, rr, iq>>

Preprocess(r) ==
    /\ Enter(r, "preprocess")
    /\ IF "query" \notin state[r].keys
       THEN Raise(r)
       ELSE Advance(r, "preprocess",
                [state[r] EXCEPT !.keys = @ \cup {"normalized_query"},
                                 !.normalized_query = preprocess_text(state[r].query)])
    /\ UNCHANGED <<cache, calls, xp, fz, rr, iq>>

DetectIntent(r) ==
    /\ Enter(r, "detect_intent")
    /\ IF {"query", "normalized_query"} \subseteq state[r].keys
       THEN LET parsed == parse_query(state[r].normalized_query, state[r].query)
            IN  Advance(r, "detect_intent",
                    [state[r] EXCEPT !.keys = @ \cup {"intent", "slots"},
                                     !.intent = parsed.intent,
                                     !.slots = parsed.slots])
       ELSE Raise(r)
    /\ UNCHANGED <<cache, calls, xp, fz, rr, iq>>

Retrieve(r, llm, index) ==
    /\ Enter(r, "retrieve")
    /\ IF "normalized_query" \notin state[r].keys
       THEN Raise(r) /\ Count(r, "retriever")
       ELSE LET variations == generate_query_variations(state[r].normalized_query, 0, llm)
                filters == BuildFilters("slots" \in state[r].keys, state[r].slots)
                results == search(index, 0)
                searches == IssuedSearches(variations, index, filters)
            IN  /\ calls' = [calls EXCEPT
                                ![r].retriever = @ + 1,
                                ![r].query_filters =
                                    {searches[i].query_filter : i \in DOMAIN searches}]
                /\ IF results.raised
                   THEN Raise(r)
                   ELSE Advance(r, "retrieve",
                            [state[r] EXCEPT !.keys = @ \cup {"retrieved_docs"},
                                             !.retrieved_docs = results.docs])
    /\ UNCHANGED <<cache, xp, fz, rr, iq>>

\* faulty variant of Rerank: the scorer is run on an empty candidate set too
Rerank_always(r, scorer) ==
    /\ Enter(r, "rerank")
    /\ IF "normalized_query" \notin state[r].keys
       THEN Raise(r) /\ UNCHANGED calls
       ELSE LET retrieved_docs == Get(state[r], "retrieved_docs", <<>>)
                res == rerank(retrieved_docs, 0, scorer)
            IN  /\ calls' = [calls EXCEPT ![r].reranker = @ + 1, ![r].scorer = @ + 1]
                /\ IF ~scorer.ok
                   THEN Raise(r)
                   ELSE Advance(r, "rerank",
                            [state[r] EXCEPT !.keys = @ \cup {"reranked_docs"},
                                             !.reranked_docs = res.docs,
                                             !.retrieved_docs = res.documents])
    /\ UNCHANGED <<cache, xp, fz, rr, iq>>

Rerank(r, scorer) ==
    /\ Enter(r, "rerank")
    /\ IF "normalized_query" \notin state[r].keys
       THEN Raise(r) /\ UNCHANGED calls
       ELSE LET retrieved_docs == Get(state[r], "retrieved_docs", <<>>)
                res == rerank(retrieved_docs, 0, scorer)
            IN  IF retrieved_docs # <<>>
                THEN /\ calls' = [calls EXCEPT ![r].reranker = @ + 1,
                                               ![r].scorer = IF res.predicted THEN @ + 1 ELSE @]
                     /\ IF res.raised
                        THEN Raise(r)
                        ELSE Advance(r, "rerank",
                                [state[r] EXCEPT !.keys = @ \cup {"reranked_docs"},
                                                 !.reranked_docs = res.docs,
                                                 !.retrieved_docs = res.documents])
                ELSE /\ UNCHANGED calls
                     /\ Advance(r, "rerank",
                            [state[r] EXCEPT !.keys = @ \cup {"reranked_docs"},
                                             !.reranked_docs = <<>>])
    /\ UNCHANGED <<cache, xp, fz, rr, iq>>

Generate(r, llm) ==
    /\ Enter(r, "generate")
    /\ Count(r, "generator")
    /\ IF "query" \notin state[r].keys
       THEN Raise(r)
       ELSE Advance(r, "generate",
                [state[r] EXCEPT !.keys = @ \cup {"final_response"},
                                 !.final_response = generate(llm)])
    /\ UNCHANGED <<cache, xp, fz, rr, iq>>

CacheResponse(r, redis_ok) ==
    /\ Enter(r, "cache_response")
    /\ Count(r, "cache_set")
    /\ IF ~redis_ok \/ ~({"query", "final_response"} \subseteq state[r].keys)
       THEN Raise(r) /\ UNCHANGED cache
       ELSE /\ cache' = set_cached_response(cache, state[r].query, state[r].final_response)
            /\ Advance(r, "cache_response", state[r])
    /\ UNCHANGED <<xp, fz, rr, iq>>

\* the store drops a key whose time to live ran out
Expire(key) ==
    /\ key \in DOMAIN cache
    /\ cache' = Expired(cache, key)
    /\ UNCHANGED <<pc, state, trace, calls, xp, fz, rr, iq>>

XpIdle == [phase |-> "off"]
FzIdle == [phase |-> "off"]
RrIdle == [phase |-> "off"]
IqIdle == [phase |-> "off"]

Init ==
    /\ cache = <<>>
    /\ pc = [r \in Runs |-> "idle"]
    /\ state = [r \in Runs |-> NoState]
    /\ trace = [r \in Runs |-> <<>>]
    /\ calls = [r \in Runs |-> NoCalls]
    /\ xp = XpIdle
    /\ fz = FzIdle
    /\ rr = RrIdle
    /\ iq = IqIdle

\* the answers of the index to the variations the expander returns under llm
Variations(r, llm) == generate_query_variations(state[r].normalized_query, 0, llm)

IndexAnswers(r, llm) == [DOMAIN Variations(r, llm) -> IndexOutcomes]

\* the node run r is about to execute runs
Step(r) ==
    \/ pc[r] = "check_cache" /\ \E redis_ok \in BOOLEAN : CheckCache(r, redis_ok)
    \/ pc[r] = "preprocess" /\ Preprocess(r)
    \/ pc[r] = "detect_intent" /\ DetectIntent(r)
    \/ pc[r] = "retrieve" /\ \E llm \in ExpanderOutcomes :
                                \E index \in IndexAnswers(r, llm) : Retrieve(r, llm, index)
    \/ pc[r] = "rerank" /\ \E scorer \in ScorerOutcomes : Rerank(r, scorer)
    \/ pc[r] = "generate" /\ \E llm \in GeneratorOutcomes : Generate(r, llm)
    \/ pc[r] = "cache_response" /\ \E redis_ok \in BOOLEAN : CacheResponse(r, redis_ok)

Next ==
    \/ \E r \in Runs, query \in Queries : Run(r, query)
    \/ \E r \in Runs : Step(r)
    \/ \E key \in DOMAIN cache : Expire(key)

Spec == Init /\ [][Next]_vars

(***************************************************************************)
(* The pipeline with external calls that may never return.  A node that    *)
(* calls the cache, the retriever, the scorer or the generator waits for   *)
(* the call; run awaits the graph and nothing else acts on the run.  The   *)
(* event loop resumes every coroutine that can take a step.                *)
(***************************************************************************)
ExternalCallNodes == {"check_cache", "retrieve", "rerank", "generate", "cache_response"}

\* the node run r is about to execute makes its external call, which does
\* not return: the run stays suspended inside the node
Await(r) ==
    /\ pc[r] \in ExternalCallNodes
    /\ pc[r] = "rerank" => Get(state[r], "retrieved_docs", <<>>) # <<>>
    /\ Enter(r, pc[r])
    /\ pc' = [pc EXCEPT ![r] = "awaiting"]
    /\ UNCHANGED <<cache, state, calls, xp, fz, rr, iq>>

HangNext ==
    \/ Next
    \/ \E r \in Runs : Await(r)

HangSpec == Init /\ [][HangNext]_vars /\ \A r \in Runs : WF_vars(Step(r))

(***************************************************************************)
(* One call of generate_query_variations on every query, target count and  *)
(* generation outcome within the bounds.                                   *)
(***************************************************************************)
Alphabet == {"1", ".", ")", "-", " ", "\n", "gushi", "mobile"}

Texts(n) == UNION {[1..k -> Alphabet] : k \in 0..n}

ExpandQueries == {<<"gushi">>, <<"gushi", " ", "mobile">>}

NumArgs == {0, 1, 2}      \* 0: the argument is left out

NoPipeline ==
    /\ cache = <<>>
    /\ pc = [r \in Runs |-> "idle"]
    /\ state = [r \in Runs |-> NoState]
    /\ trace = [r \in Runs |-> <<>>]
    /\ calls = [r \in Runs |-> NoCalls]

ExpandInit ==
    /\ NoPipeline
    /\ fz = FzIdle
    /\ rr = RrIdle
    /\ iq = IqIdle
    /\ \E query \in ExpandQueries, num \in NumArgs,
          llm \in {LLMFails} \cup {LLMSays(t) : t \in Texts(MaxContentLen)} :
            xp = [phase |-> "called", query |-> query, num_variations |-> num,
                  llm |-> llm, result |-> <<>>,
                  index |-> <<>>, raised |-> FALSE, docs |-> <<>>]

ExpandReturn ==
    /\ xp.phase = "called"
    /\ xp' = [xp EXCEPT !.phase = "returned",
                        !.result = generate_query_variations(xp.query, xp.num_variations, xp.llm)]
    /\ UNCHANGED <<cache, pc, state, trace, calls, fz, rr, iq>>

\* retrieve, lines 186-199: the variations of the default call are handed to
\* search (no slots, so no filter), and what search returns is returned
RetrieveSearch ==
    /\ xp.phase = "returned"
    /\ xp.num_variations = 0
    /\ \E index \in [DOMAIN xp.result -> IndexOutcomes] :
        LET results == search(index, 0)
        IN  xp' = [xp EXCEPT !.phase = "searched", !.index = index,
                             !.raised = results.raised, !.docs = results.docs]
    /\ UNCHANGED <<cache, pc, state, trace, calls, fz, rr, iq>>

ExpandNext == ExpandReturn \/ RetrieveSearch

ExpandSpec == ExpandInit /\ [][ExpandNext]_vars

(***************************************************************************)
(* One call of search on every list of per-variation outcomes within the   *)
(* bounds: the loop of lines 122-158, then the sort of lines 160-171.      *)
(***************************************************************************)
ProductIds == 1..NumProducts
Scores == 1..MaxScore
HitSet == [id : ProductIds, score : Scores]

\* what qdrant.search returns under limit: distinct ids, best score first
HitLists(limit) ==
    LET n == IF limit < MaxHits THEN limit ELSE MaxHits
    IN  {h \in UNION {[1..k -> HitSet] : k \in 0..n} :
            /\ \A i, j \in DOMAIN h : i # j => h[i].id # h[j].id
            /\ \A i, j \in DOMAIN h : i < j => h[i].score >= h[j].score}

Outcomes(limit) == {EmbedError, SearchError} \cup {Hits(h) : h \in HitLists(limit)}

TopKArgs == {0, 1}        \* 0: the argument is left out

FuseInit ==
    /\ NoPipeline
    /\ xp = XpIdle
    /\ rr = RrIdle
    /\ iq = IqIdle
    /\ \E top_k \in TopKArgs, n \in 1..MaxVariations :
        \E outcomes \in [1..n -> Outcomes(EffectiveTopK(top_k))] :
            fz = [phase |-> "loop", top_k |-> top_k, outcomes |-> outcomes,
                  all_results |-> <<>>, out |-> <<>>]

\* the loop over the variations: embed, search, merge; an embedding that
\* fails ends the call
SearchStep ==
    /\ fz.phase = "loop"
    /\ fz' = IF \E i \in DOMAIN fz.outcomes : fz.outcomes[i].kind = "embed_error"
             THEN [fz EXCEPT !.phase = "raised"]
             ELSE [fz EXCEPT !.phase = "merged",
                             !.all_results = SearchLoop(<<>>, fz.outcomes)]
    /\ UNCHANGED <<cache, pc, state, trace, calls, xp, rr, iq>>

\* after the loop: sort, truncate, rank, return
SearchReturn ==
    /\ fz.phase = "merged"
    /\ fz' = [fz EXCEPT !.phase = "returned",
                        !.out = SortTruncateRank(fz.all_results, fz.top_k)]
    /\ UNCHANGED <<cache, pc, state, trace, calls, xp, rr, iq>>

FuseNext == SearchStep \/ SearchReturn

FuseSpec == FuseInit /\ [][FuseNext]_vars

(***************************************************************************)
(* One call of rerank on every candidate list, top_k argument and scorer   *)
(* outcome within the bounds, and then a second call, with the same        *)
(* arguments and scorer, on the list the first returned.                   *)
(***************************************************************************)
\* the candidate lists: distinct products, any scores, ranked by position
CandidateLists ==
    {AssignRanks([i \in DOMAIN h |-> [id |-> h[i].id, score |-> h[i].score, rank |-> 0]]) :
        h \in {g \in UNION {[1..k -> HitSet] : k \in 0..NumProducts} :
                    \A i, j \in DOMAIN g : i # j => g[i].id # g[j].id}}

\* what model.predict does: it raises, or it gives every document a score
NewScores == 0..MaxScore
Scorers == {ScorerFails} \cup {[ok |-> TRUE, score |-> f] : f \in [ProductIds -> NewScores]}

TopMArgs == {0, 1, 2}     \* 0: the argument is left out

RerankInit ==
    /\ NoPipeline
    /\ xp = XpIdle
    /\ fz = FzIdle
    /\ iq = IqIdle
    /\ \E documents \in CandidateLists, top_k \in TopMArgs, scorer \in Scorers :
        rr = [phase |-> "called", documents |-> documents, top_k |-> top_k,
              scorer |-> scorer, predicted |-> FALSE, out |-> <<>>,
              after |-> <<>>, again |-> <<>>]

\* rerank returns or raises; after is the caller's list once the call is over
RerankReturn ==
    /\ rr.phase = "called"
    /\ LET res == rerank(rr.documents, rr.top_k, rr.scorer)
       IN  rr' = [rr EXCEPT !.phase = IF res.raised THEN "raised" ELSE "returned",
                            !.predicted = res.predicted,
                            !.out = res.docs,
                            !.after = res.documents]
    /\ UNCHANGED <<cache, pc, state, trace, calls, xp, fz, iq>>

\* rerank is applied to the list it returned
RerankAgain ==
    /\ rr.phase = "returned"
    /\ rr' = [rr EXCEPT !.phase = "repeated",
                        !.again = rerank(rr.out, rr.top_k, rr.scorer).docs]
    /\ UNCHANGED <<cache, pc, state, trace, calls, xp, fz, iq>>

RerankNext == RerankReturn \/ RerankAgain

RerankSpec == RerankInit /\ [][RerankNext]_vars

(***************************************************************************)
(* Classifier harness: parse_query is called with a preprocessed text      *)
(* whose words, runs of symbols, come either from IntentWords, which       *)
(* carry the intent patterns (at most MaxIntentWords of them), or from     *)
(* SlotWords, which carry the slot patterns (at most MaxSlotWords).        *)
(***************************************************************************)
IntentWords ==
    {<<"gushi">>, <<"gheymat">>, <<"chand", "e">>, <<"mi">>, <<"tunam">>,
     <<"bekharam">>, <<"salam">>, <<"kharid">>}

SlotWords ==
    {<<"sefid">>, <<"samsung">>, <<"2", "adad">>, <<"0", "ta">>,
     <<"2", "hezar">>, <<"1", "milyun">>, <<"3", "toman">>, <<"ya">>}

WordLists(words, max) == UNION {[1..n -> words] : n \in 0..max}

QueryTexts ==
    {JoinSpace(ws) : ws \in WordLists(IntentWords, MaxIntentWords)
                            \cup WordLists(SlotWords, MaxSlotWords)}

NoParsed ==
    [original_text |-> <<>>, normalized_text |-> <<>>, intent |-> "",
     slots |-> NoSlots, confidence |-> 0]

ClassifyInit ==
    /\ NoPipeline
    /\ xp = XpIdle
    /\ fz = FzIdle
    /\ rr = RrIdle
    /\ \E text \in QueryTexts : iq = [phase |-> "called", text |-> text, parsed |-> NoParsed]

\* the preprocess and detect_intent steps of one run: the text is
\* preprocessed and handed to parse_query
ParseQuery ==
    /\ iq.phase = "called"
    /\ iq' = [iq EXCEPT !.phase = "returned",
                        !.parsed = parse_query(preprocess_text(iq.text), iq.text)]
    /\ UNCHANGED <<cache, pc, state, trace, calls, xp, fz, rr>>

ClassifyNext == ParseQuery

ClassifySpec == ClassifyInit /\ [][ClassifyNext]_vars

(***************************************************************************)
(* Properties of the orchestrator.                                         *)
(***************************************************************************)
GreetingPath == <<"check_cache", "preprocess", "detect_intent", "generate", "cache_response">>
FullPath ==
    <<"check_cache", "preprocess", "detect_intent", "retrieve", "rerank",
      "generate", "cache_response">>
HitPath == <<"check_cache">>

IsPrefix(s, t) == Len(s) <= Len(t) /\ s = SubSeq(t, 1, Len(s))

\* the node a run that executed the trace s of path t is about to execute
Following(s, t) == IF Len(s) < Len(t) THEN t[Len(s) + 1] ELSE "End"

\* the check_cache step of run r returns without raising
CheckCacheReturns(r) ==
    pc[r] = "check_cache" /\ pc'[r] \notin {"check_cache", "failed"}

\* C1: whenever check_cache finds a cached response for the query (the
\* store holds a value under the query's key), the run ends directly after
\* check_cache with from_cache = true and final_response the cached value,
\* and no other node, retriever, reranker, generator or cache write has run.
C1_CacheShortCircuit ==
    [][\A r \in Runs :
        (CheckCacheReturns(r) /\ get_cached_response(cache, state[r].query).found)
        => /\ pc'[r] = "End"
           /\ state'[r].from_cache
           /\ state'[r].final_response = get_cached_response(cache, state[r].query).value
           /\ trace'[r] = HitPath
           /\ calls'[r].retriever = 0 /\ calls'[r].reranker = 0
           /\ calls'[r].generator = 0 /\ calls'[r].cache_set = 0]_vars

\* C2: a run starts with from_cache = false, and once from_cache is true
\* final_response never changes again in that run.
C2_FromCacheFreezesResponse ==
    [][\A r \in Runs :
        /\ (pc[r] = "idle" /\ pc'[r] # "idle") => ~state'[r].from_cache
        /\ state[r].from_cache
            => state'[r].from_cache /\ state'[r].final_response = state[r].final_response]_vars

C2_Witness ==
    \E r \in Runs : state[r].from_cache /\ pc[r] = "End" /\ state[r].final_response # <<>>

\* C3: after detect_intent on a cache miss a GREETING run goes to generate
\* with no retrieve and no rerank (the generator gets an empty document
\* list), and a run of any other intent executes retrieve, rerank, generate,
\* cache_response, End in that order.
C3_IntentRouting ==
    \A r \in Runs :
        ("intent" \in state[r].keys /\ pc[r] # "failed")
        => IF state[r].intent = "GREETING"
           THEN /\ IsPrefix(trace[r], GreetingPath)
                /\ pc[r] = Following(trace[r], GreetingPath)
                /\ calls[r].retriever = 0 /\ calls[r].reranker = 0
                /\ Get(state[r], "reranked_docs", <<>>) = <<>>
           ELSE /\ IsPrefix(trace[r], FullPath)
                /\ pc[r] = Following(trace[r], FullPath)

C3_Witness ==
    \E r, q \in Runs :
        /\ pc[r] = "End" /\ state[r].intent = "GREETING" /\ trace[r] = GreetingPath
        /\ pc[q] = "End" /\ state[q].intent = "GENERAL" /\ trace[q] = FullPath

StageRaises(r) ==
    \/ CheckCache(r, FALSE)
    \/ CacheResponse(r, FALSE)
    \/ /\ pc[r] = "retrieve"
       /\ \E llm \in ExpanderOutcomes :
            Retrieve(r, llm, [i \in DOMAIN Variations(r, llm) |-> EmbedError])
    \/ /\ pc[r] = "rerank"
       /\ Get(state[r], "retrieved_docs", <<>>) # <<>>
       /\ Rerank(r, ScorerFails)

\* C5: a node whose external call raises ends the run in failure at that
\* node: run returns no state, nothing is written to the cache by that step,
\* and a failed run executes no further node and makes no further call.
C5_FailureAbortsRun ==
    [][\A r \in Runs :
        /\ (pc[r] # pc'[r] /\ StageRaises(r))
            => pc'[r] = "failed" /\ state'[r] = NoState /\ cache' = cache
        /\ pc[r] = "failed"
            => pc'[r] = "failed" /\ trace'[r] = trace[r] /\ calls'[r] = calls[r]]_vars

C5_Witness ==
    \E r, q \in Runs :
        /\ pc[r] = "failed" /\ trace[r] = FullPath
        /\ pc[q] = "failed" /\ trace[q] = HitPath

(***************************************************************************)
(* Properties of the retriever and of the query expander.                  *)
(***************************************************************************)
Max(S) == CHOOSE x \in S : \A y \in S : y <= x

\* the scores product id received from the variations whose search succeeded
ScoresOf(outcomes, id) ==
    {outcomes[i].hits[j].score :
        <<i, j>> \in {<<i, j>> \in (DOMAIN outcomes) \X (1..MaxHits) :
                        /\ outcomes[i].kind = "hits"
                        /\ j \in DOMAIN outcomes[i].hits
                        /\ outcomes[i].hits[j].id = id}}

\* C6: the list search returns holds each product id at most once, and the
\* score of each returned product is the maximum score the product received
\* over the variations whose search succeeded.
C6_FusionDedupMax ==
    fz.phase = "returned"
    => /\ \A i, j \in DOMAIN fz.out : i # j => fz.out[i].id # fz.out[j].id
       /\ \A i \in DOMAIN fz.out :
            /\ ScoresOf(fz.outcomes, fz.out[i].id) # {}
            /\ fz.out[i].score = Max(ScoresOf(fz.outcomes, fz.out[i].id))

C6_Witness ==
    /\ fz.phase = "returned"
    /\ \E i \in DOMAIN fz.out :
        /\ Cardinality(ScoresOf(fz.outcomes, fz.out[i].id)) >= 2
        /\ fz.out[i].score = Max(ScoresOf(fz.outcomes, fz.out[i].id))
    /\ Len(fz.out) >= 2

\* C7: the returned list is no longer than the top-N in force, its scores do
\* not increase, the element at position i (from 1) has rank i, and every
\* fused product left out has a score no greater than the last returned one.
C7_FusionOrderAndTruncation ==
    fz.phase = "returned"
    => /\ Len(fz.out) <= EffectiveTopK(fz.top_k)
       /\ \A i, j \in DOMAIN fz.out : i < j => fz.out[i].score >= fz.out[j].score
       /\ \A i \in DOMAIN fz.out : fz.out[i].rank = i
       /\ \A k \in DOMAIN fz.all_results :
            HasId(fz.out, fz.all_results[k].id)
            \/ /\ fz.out # <<>>
               /\ fz.all_results[k].score <= fz.out[Len(fz.out)].score

C7_Witness ==
    /\ fz.phase = "returned"
    /\ Len(fz.all_results) > Len(fz.out)
    /\ \E k \in DOMAIN fz.all_results :
        ~HasId(fz.out, fz.all_results[k].id) /\ fz.all_results[k].score < fz.out[1].score

Permuted(outcomes, p) == [i \in DOMAIN outcomes |-> outcomes[p[i]]]

SetOf(seq) == {seq[i] : i \in DOMAIN seq}

\* C8 as stated: every order of the variations yields the same output.
C8_OrderIndependent ==
    fz.phase = "returned"
    => \A p \in Permutations(DOMAIN fz.outcomes) :
        search(Permuted(fz.outcomes, p), fz.top_k).docs = fz.out

\* C8, amended: every order of the variations yields the same fused set of
\* (product id, score), and the same output (ids, scores, ranks) whenever no
\* two fused products have equal scores.
C8_OrderIndependentUpToTies ==
    fz.phase = "returned"
    => \A p \in Permutations(DOMAIN fz.outcomes) :
        LET fused == SearchLoop(<<>>, Permuted(fz.outcomes, p))
        IN  /\ SetOf(fused) = SetOf(fz.all_results)
            /\ (\A i, j \in DOMAIN fused : i # j => fused[i].score # fused[j].score)
                => SortTruncateRank(fused, fz.top_k) = fz.out

C8_Witness ==
    /\ fz.phase = "returned"
    /\ Len(fz.outcomes) >= 2
    /\ fz.outcomes[1] # fz.outcomes[2]
    /\ fz.outcomes[1].kind = "hits" /\ fz.outcomes[2].kind = "hits"
    /\ Len(fz.all_results) >= 2
    /\ \A i, j \in DOMAIN fz.all_results :
        i # j => fz.all_results[i].score # fz.all_results[j].score
    /\ \E id \in ProductIds : Cardinality(ScoresOf(fz.outcomes, id)) >= 2

\* the outcomes of the variations whose search succeeded, in order
RECURSIVE Succeeded(_)
Succeeded(outcomes) ==
    IF outcomes = <<>> THEN <<>>
    ELSE IF Head(outcomes).kind = "hits"
         THEN <<Head(outcomes)>> \o Succeeded(Tail(outcomes))
         ELSE Succeeded(Tail(outcomes))

\* C9: when the searches of some variations raise (and every embedding
\* succeeds), retrieve does not raise and stores the fusion of the results of
\* the variations that succeeded, the empty list when none did; rerank then
\* passes an empty list on to generate without raising.
C9_SearchFailuresSkipped ==
    [][\A r \in Runs :
        /\ (pc[r] = "retrieve" /\ pc'[r] # "retrieve")
            => \A llm \in ExpanderOutcomes : \A index \in IndexAnswers(r, llm) :
                (/\ Retrieve(r, llm, index)
                 /\ \A i \in DOMAIN index : index[i].kind # "embed_error")
                => /\ pc'[r] = "rerank"
                   /\ state'[r].retrieved_docs = search(Succeeded(index), 0).docs
                   /\ Succeeded(index) = <<>> => state'[r].retrieved_docs = <<>>
        /\ (pc[r] = "rerank" /\ pc'[r] # "rerank" /\ state[r].retrieved_docs = <<>>)
            => /\ pc'[r] = "generate"
               /\ state'[r].reranked_docs = <<>>
               /\ "reranked_docs" \in state'[r].keys]_vars

C9_Witness ==
    \E r, q \in Runs :
        /\ pc[r] = "cache_response" /\ trace[r] = SubSeq(FullPath, 1, 6)
        /\ state[r].retrieved_docs = <<>>
        /\ pc[q] = "rerank" /\ state[q].retrieved_docs # <<>>

\* the target count in force: the argument, or the default when left out
EffectiveNum(num) == IF num # 0 THEN num ELSE QUERY_VARIATIONS

\* C10: generate_query_variations returns a list that starts with the
\* original query, has between 1 and k elements, and holds after the first
\* no empty element and no element equal to the original query.
C10_VariationsShape ==
    xp.phase = "returned"
    => /\ Len(xp.result) >= 1
       /\ Len(xp.result) <= EffectiveNum(xp.num_variations)
       /\ xp.result[1] = xp.query
       /\ \A i \in 2..Len(xp.result) : xp.result[i] # <<>> /\ xp.result[i] # xp.query

C10_Witness ==
    /\ xp.phase = "returned"
    /\ xp.llm.ok
    /\ xp.num_variations = 2
    /\ Len(xp.result) = 2
    /\ Len(ParseLines(SplitAll(Strip(xp.llm.content), "\n"), xp.query)) = 2

\* the generation call raised, or its response holds no line that parses
\* into a variation
NothingParsed(llm, query) ==
    ~llm.ok \/ ParseLines(SplitAll(Strip(llm.content), "\n"), query) = <<>>

\* C11: when the generation call raises or its response yields nothing that
\* parses, generate_query_variations returns exactly [original_query], and
\* retrieve then searches that single variation: it returns what search
\* returns for it, and raises only if its embedding does.
C11_ExpanderFailureDegrades ==
    (xp.phase \in {"returned", "searched"} /\ NothingParsed(xp.llm, xp.query))
    => /\ xp.result = <<xp.query>>
       /\ xp.phase = "searched"
            => /\ Len(xp.index) = 1
               /\ xp.raised = (xp.index[1].kind = "embed_error")
               /\ ~xp.raised => xp.docs = SortTruncateRank(SearchOne(<<>>, xp.index[1]), 0)

C11_Witness ==
    /\ xp.phase = "searched"
    /\ ~xp.llm.ok
    /\ xp.result = <<xp.query>>
    /\ xp.docs # <<>>

(***************************************************************************)
(* Properties of the reranker.                                             *)
(***************************************************************************)
\* the top-M in force: the argument, or the default when left out
EffectiveTopM(top_k) == IF top_k # 0 THEN top_k ELSE RERANK_TOP_K

\* C12: for a non-empty candidate list and a scorer that scores, rerank
\* returns min(n, M) of the candidates, each once and with the scorer's score
\* for it, scores not increasing, rank i at position i (from 1), and every
\* candidate left out has a new score no greater than the last kept one.
C12_RerankTopM ==
    (rr.phase \in {"returned", "repeated"} /\ rr.documents # <<>>)
    => /\ Len(rr.out) = IF Len(rr.documents) < EffectiveTopM(rr.top_k)
                         THEN Len(rr.documents) ELSE EffectiveTopM(rr.top_k)
       /\ \A i \in DOMAIN rr.out :
            /\ HasId(rr.documents, rr.out[i].id)
            /\ rr.out[i].score = rr.scorer.score[rr.out[i].id]
            /\ rr.out[i].rank = i
       /\ \A i, j \in DOMAIN rr.out :
            /\ i # j => rr.out[i].id # rr.out[j].id
            /\ i < j => rr.out[i].score >= rr.out[j].score
       /\ \A k \in DOMAIN rr.documents :
            HasId(rr.out, rr.documents[k].id)
            \/ rr.scorer.score[rr.documents[k].id] <= rr.out[Len(rr.out)].score

C12_Witness ==
    /\ rr.phase = "returned"
    /\ Len(rr.documents) > Len(rr.out)
    /\ rr.out # <<>>
    /\ \E k \in DOMAIN rr.documents :
        /\ ~HasId(rr.out, rr.documents[k].id)
        /\ rr.documents[k].score > rr.documents[IndexOfId(rr.documents, rr.out[1].id)].score
        /\ rr.scorer.score[rr.documents[k].id] < rr.out[1].score

\* C14: with the same scorer and top-M, rerank applied to the list a previous
\* rerank returned gives that list again: same documents, order, scores, ranks.
C14_RerankIdempotent ==
    rr.phase = "repeated" => rr.again = rr.out

C14_Witness ==
    /\ rr.phase = "repeated"
    /\ Len(rr.out) >= 2
    /\ rr.out[1].score = rr.out[2].score
    /\ rr.again = rr.out
    /\ rr.out # rr.documents

\* C13: a run whose rerank stage received an empty candidate set holds an
\* empty reranked set and has invoked neither the reranker nor its scorer;
\* the stage does not fail on an empty set (a run that failed at rerank had
\* invoked the scorer, on a non-empty set).
C13_EmptyRerankSkipsScorer ==
    \A r \in Runs :
        /\ (pc[r] # "failed" /\ "reranked_docs" \in state[r].keys
                /\ state[r].retrieved_docs = <<>>)
            => /\ state[r].reranked_docs = <<>>
               /\ calls[r].scorer = 0
               /\ calls[r].reranker = 0
        /\ (pc[r] = "failed" /\ trace[r] = SubSeq(FullPath, 1, 5))
            => calls[r].scorer = 1

C13_Witness ==
    \E r, q \in Runs :
        /\ pc[r] = "End" /\ trace[r] = FullPath
        /\ state[r].retrieved_docs = <<>> /\ state[r].reranked_docs = <<>>
        /\ calls[r].scorer = 0
        /\ pc[q] = "End" /\ calls[q].scorer = 1

(***************************************************************************)
(* Properties of the classifier.                                           *)
(***************************************************************************)
\* the scores detect_intent computes for the text of the call
ScoresOfText ==
    [x \in {IntentOrder[k] : k \in DOMAIN IntentOrder} |->
        IntentScore(x, Lower(iq.parsed.normalized_text))]
Position(intent) == CHOOSE k \in DOMAIN IntentOrder : IntentOrder[k] = intent

\* C15: the intent is GENERAL exactly when no pattern of any intent matches
\* the text; otherwise it is an intent with the largest number of matching
\* patterns, and among the intents that share this number the one that comes
\* first in the fixed order; a text that matches patterns of one intent only
\* yields that intent.
C15_HighestScoreFirstInOrder ==
    iq.phase = "returned" =>
        LET intent == iq.parsed.intent
            score == ScoresOfText
            matched == {x \in DOMAIN score : score[x] > 0}
        IN  /\ intent = "GENERAL" <=> matched = {}
            /\ intent # "GENERAL" =>
                /\ intent \in matched
                /\ \A x \in matched : score[x] <= score[intent]
                /\ \A x \in matched :
                    score[x] = score[intent] => Position(intent) <= Position(x)
            /\ \A x \in matched : matched = {x} => intent = x

\* two intents share the largest score and the earlier one is returned
C15_Witness ==
    /\ iq.phase = "returned"
    /\ iq.parsed.intent = "AVAILABILITY"
    /\ ScoresOfText["PURCHASE"] = ScoresOfText["AVAILABILITY"]

\* the bonus of n counted slots
SlotBonus(n) == IF n < 3 THEN n ELSE 3

\* C16: the confidence (in tenths) is 5, plus 2 when the intent is not
\* GENERAL, plus 1 for every slot field the extraction set (quantity, color,
\* brand, price_range, comparison_items), the slot bonus being at most 3; it
\* lies between 5 and 10.
C16_ConfidenceCountsSetSlots ==
    iq.phase = "returned" =>
        LET parsed == iq.parsed
        IN  /\ parsed.confidence =
                5 + (IF parsed.intent # "GENERAL" THEN 2 ELSE 0)
                  + SlotBonus(Cardinality(parsed.slots.set))
            /\ parsed.confidence \in 5..10

\* the same with the slot fields counted the way the code counts them: a
\* field counts when it is set and its value is not zero or empty
C16_ConfidenceCountsTruthySlots ==
    iq.phase = "returned" =>
        LET parsed == iq.parsed
            counted == {f \in parsed.slots.set : SlotTruthy(parsed.slots, f)}
        IN  /\ parsed.confidence =
                5 + (IF parsed.intent # "GENERAL" THEN 2 ELSE 0)
                  + SlotBonus(Cardinality(counted))
            /\ parsed.confidence \in 5..10

\* a text with the quantity 0: the extraction sets the field, the
\* confidence does not count it
C16_ZeroQuantity ==
    /\ iq.phase = "returned"
    /\ "quantity" \in iq.parsed.slots.set
    /\ iq.parsed.slots.quantity = 0
    /\ iq.parsed.confidence = 5 + SlotBonus(Cardinality(iq.parsed.slots.set)) - 1

\* the price mentions of the text of the call, as extraction reads them
PriceMentions == FindAllNumberUnit(iq.parsed.normalized_text, 1, PriceUnits)

Multiplier(unit) ==
    IF unit = "hezar" THEN 1000 ELSE IF unit = "milyun" THEN 1000000 ELSE 1

\* C17: a price mention is worth its number times 1000 for the thousand
\* unit, times 1000000 for the million unit and times 1 for the plain unit;
\* with no mention the price range is unset, with one mention of value v it
\* is {min 0, max v}, with two or more it is {min smallest, max largest}
\* whatever the order of the mentions, and min <= max in every case.
C17_PriceRange ==
    iq.phase = "returned" =>
        LET slots == iq.parsed.slots
            values == [k \in DOMAIN PriceMentions |->
                          PriceMentions[k].number * Multiplier(PriceMentions[k].unit)]
            range == slots.price_range
        IN  /\ "price_range" \in slots.set <=> Len(values) > 0
            /\ Len(values) = 1 => range = [min |-> 0, max |-> values[1]]
            /\ Len(values) >= 2 =>
                /\ \E k \in DOMAIN values : range.min = values[k]
                /\ \E k \in DOMAIN values : range.max = values[k]
                /\ \A k \in DOMAIN values : range.min <= values[k] /\ values[k] <= range.max
            /\ "price_range" \in slots.set => range.min <= range.max

\* two mentions, the larger one first, in different units
C17_Witness ==
    /\ iq.phase = "returned"
    /\ Len(PriceMentions) >= 2
    /\ PriceMentions[1].unit = "milyun"
    /\ PriceMentions[2].unit = "hezar"
    /\ iq.parsed.slots.price_range = [min |-> 2000, max |-> 1000000]

(***************************************************************************)
(* The caller of run (api/routes.py, chat) and the result of a run.        *)
(***************************************************************************)
\* line 58: result.get("slots", {}).get("confidence") if result.get("slots")
\* else None.  The outcomes the Slots object allows: an object without a
\* get method makes the read raise; one that offers get answers None, for
\* extraction stores no confidence in the slots; a slots value that counts
\* as false, or no slots at all, gives None without a read.
chat_confidence(result) ==
    IF "slots" \in result.keys
    THEN {[raised |-> TRUE, found |-> FALSE, value |-> 0],
          [raised |-> FALSE, found |-> FALSE, value |-> 0]}
    ELSE {[raised |-> FALSE, found |-> FALSE, value |-> 0]}

\* C18: the result of a run that missed the cache and completed carries
\* final_response, intent, from_cache = false and the confidence the
\* classifier computes for the query, and the caller reads that confidence
\* from the result without an error.
C18_ResultCarriesConfidence ==
    \A r \in Runs :
        (pc[r] = "End" /\ ~state[r].from_cache) =>
            LET result == state[r]
                parsed == parse_query(result.normalized_query, result.query)
            IN  /\ {"final_response", "intent", "from_cache"} \subseteq result.keys
                /\ result.intent = parsed.intent
                /\ "confidence" \in result.keys
                /\ \A read \in chat_confidence(result) :
                    ~read.raised /\ read.found /\ read.value = parsed.confidence

\* what the result of such a run does carry
C18_ResultWithoutConfidence ==
    \A r \in Runs :
        (pc[r] = "End" /\ ~state[r].from_cache) =>
            /\ state[r].keys = {"query", "user_id", "session_id", "from_cache",
                                "normalized_query", "intent", "slots", "final_response"}
                               \cup (IF state[r].intent = "GREETING" THEN {}
                                     ELSE {"retrieved_docs", "reranked_docs"})
            /\ \A read \in chat_confidence(state[r]) : ~read.found

\* C19: a run whose stage waits for an external call that never returns is
\* eventually aborted.
C19_HungCallAborts ==
    \A r \in Runs : (pc[r] = "awaiting") ~> (pc[r] = "failed")

(***************************************************************************)
(* Properties of the response cache under concurrent runs.                 *)
(***************************************************************************)
\* the cache_response step of run r returns without raising
CacheResponseReturns(r) == pc[r] = "cache_response" /\ pc'[r] = "End"

\* a returning cache_response step of run r puts the run's final_response
\* under the key of the run's own query, replacing what was there, and
\* touches no other key; nothing but such a write or an expiry changes the
\* store
WritesOwnKeyOnly ==
    /\ \A r \in Runs :
        CacheResponseReturns(r) =>
            LET key == ResponseKey(state[r].query)
            IN  /\ DOMAIN cache' = DOMAIN cache \cup {key}
                /\ cache'[key] = state[r].final_response
                /\ \A k \in DOMAIN cache \ {key} : cache'[k] = cache[k]
    /\ cache' # cache =>
        \/ \E r \in Runs : CacheResponseReturns(r)
        \/ \E key \in DOMAIN cache : cache' = Expired(cache, key)

\* C20: every run writes only the key of its own query text, a write
\* replaces the value of that key (the last write wins, one value per
\* query text), and a later run with the same text, finding the value in
\* the store, returns it with from_cache = true.
C20_LastWriteWins ==
    [][/\ WritesOwnKeyOnly
       /\ \A r \in Runs :
            (CheckCacheReturns(r) /\ get_cached_response(cache, state[r].query).found)
            => /\ state'[r].from_cache
               /\ state'[r].final_response
                    = get_cached_response(cache, state[r].query).value]_vars

\* the same for the later runs that find a non-empty value
C20_LastWriteWinsNonEmpty ==
    [][/\ WritesOwnKeyOnly
       /\ \A r \in Runs :
            (CheckCacheReturns(r) /\ Truthy(get_cached_response(cache, state[r].query)))
            => /\ state'[r].from_cache
               /\ state'[r].final_response
                    = get_cached_response(cache, state[r].query).value]_vars

(***************************************************************************)
(* Properties of the retrieve stage inside a run.                          *)
(***************************************************************************)
\* the retrieve step of run r is taken
RetrieveRuns(r) == pc[r] = "retrieve" /\ pc'[r] # "retrieve"

\* one equality condition for each of brand and color that the classifier set
ExpectedConditions(slots) ==
    {[key |-> k, value |-> slots[k]] : k \in {"brand", "color"} \cap slots.set}

\* C21: in a run that reaches retrieve the search of every variation is
\* issued with the same filter: exactly one equality condition for each of
\* the brand and color slots the classifier set, and no filter at all when
\* neither is set.
C21_SlotFilters ==
    [][\A r \in Runs :
        RetrieveRuns(r) =>
            \A query_filter \in calls'[r].query_filters :
                /\ query_filter.must = ExpectedConditions(state[r].slots)
                /\ query_filter.has_filter <=> ExpectedConditions(state[r].slots) # {}]_vars

\* the searches of one run were issued under a brand and a color condition,
\* those of another run without a filter
C21_Witness ==
    \E r, q \in Runs :
        /\ calls[r].query_filters =
            {[has_filter |-> TRUE,
              must |-> {[key |-> "brand", value |-> <<"samsung">>],
                        [key |-> "color", value |-> <<"sefid">>]}]}
        /\ calls[q].query_filters = {[has_filter |-> FALSE, must |-> {}]}

\* the outcomes of the variations whose embedding succeeded, in order
RECURSIVE Embedded(_)
Embedded(outcomes) ==
    IF outcomes = <<>> THEN <<>>
    ELSE IF Head(outcomes).kind # "embed_error"
         THEN <<Head(outcomes)>> \o Embedded(Tail(outcomes))
         ELSE Embedded(Tail(outcomes))

\* C22: when the embedding of a variation fails, the variation is skipped:
\* retrieve does not raise and stores the fusion of the results of the
\* remaining variations, and the run goes on to rerank.
C22_EmbeddingFailureSkipped ==
    [][\A r \in Runs :
        RetrieveRuns(r) =>
            \A llm \in ExpanderOutcomes : \A index \in IndexAnswers(r, llm) :
                (/\ Retrieve(r, llm, index)
                 /\ \E i \in DOMAIN index : index[i].kind = "embed_error")
                => /\ pc'[r] = "rerank"
                   /\ state'[r].retrieved_docs = search(Embedded(index), 0).docs]_vars

\* what the retrieve step does when an embedding fails: the run fails and
\* returns no state
C22_EmbeddingFailureAborts ==
    [][\A r \in Runs :
        RetrieveRuns(r) =>
            \A llm \in ExpanderOutcomes : \A index \in IndexAnswers(r, llm) :
                (/\ Retrieve(r, llm, index)
                 /\ \E i \in DOMAIN index : index[i].kind = "embed_error")
                => pc'[r] = "failed" /\ state'[r] = NoState]_vars

(***************************************************************************)
(* Properties of the parsing of the generation output.                     *)
(***************************************************************************)
\* the text of a line without its leading marker: a run of digits followed
\* by "." or ")", or a bullet character
WithoutMarker(line) ==
    LET rest == LStripChars(line, Digits)
    IN  IF line # <<>> /\ Head(line) \in Digits /\ rest # <<>> /\ Head(rest) \in {".", ")"}
        THEN Strip(Tail(rest))
        ELSE IF line # <<>> /\ Head(line) \in Bullets
             THEN Strip(Tail(line))
             ELSE line

\* the candidates of the lines: one per non-empty line
RECURSIVE Candidates(_)
Candidates(lines) ==
    IF lines = <<>> THEN <<>>
    ELSE (IF Strip(Head(lines)) # <<>> THEN <<WithoutMarker(Strip(Head(lines)))>> ELSE <<>>)
         \o Candidates(Tail(lines))

\* the candidates that become variations: not empty, not the query itself
RECURSIVE Kept(_, _)
Kept(candidates, query) ==
    IF candidates = <<>> THEN <<>>
    ELSE (IF Head(candidates) # <<>> /\ Head(candidates) # query
          THEN <<Head(candidates)>> ELSE <<>>)
         \o Kept(Tail(candidates), query)

\* C23: every non-empty line of the generation output, with or without an
\* enumeration marker, contributes the line's text with only its leading
\* marker removed, so the variations returned are the query followed by
\* these texts (the empty ones and the query itself left out), cut to the
\* target count.
C23_LinesParsed ==
    (xp.phase = "returned" /\ xp.llm.ok) =>
        xp.result =
            Take(<<xp.query>> \o Kept(Candidates(SplitAll(Strip(xp.llm.content), "\n")),
                                      xp.query),
                 EffectiveNum(xp.num_variations))

\* a line is parsed as the claim says when it starts with digits and ".",
\* or with digits and ")" and holds no ".", or with one bullet and holds
\* neither "." nor ")"
PlainlyMarked(line) ==
    LET rest == LStripChars(line, Digits)
    IN  \/ /\ Head(line) \in Digits
           /\ rest # <<>> /\ Head(rest) = "."
        \/ /\ Head(line) \in Digits
           /\ rest # <<>> /\ Head(rest) = ")"
           /\ Find(line, ".") = 0
        \/ /\ Head(line) \in Bullets
           /\ Find(line, ".") = 0 /\ Find(line, ")") = 0
           /\ LStripChars(Tail(line), Whitespace) = LStripChars(Tail(line), Bullets \cup {" "})

\* the same for the outputs whose non-empty lines are all plainly marked
C23_PlainlyMarkedLinesParsed ==
    (/\ xp.phase = "returned" /\ xp.llm.ok
     /\ \A k \in DOMAIN SplitAll(Strip(xp.llm.content), "\n") :
            LET line == Strip(SplitAll(Strip(xp.llm.content), "\n")[k])
            IN  line # <<>> => PlainlyMarked(line))
    => xp.result =
            Take(<<xp.query>> \o Kept(Candidates(SplitAll(Strip(xp.llm.content), "\n")),
                                      xp.query),
                 EffectiveNum(xp.num_variations))

\* a line with a bullet and a later period: the text before the period is lost
C23_CutAtLaterPeriod ==
    /\ xp.phase = "returned"
    /\ xp.llm = LLMSays(<<"-", "mobile", ".", "gushi">>)
    /\ xp.query = <<"gushi", " ", "mobile">>
    /\ xp.num_variations = 0
    /\ xp.result = <<xp.query, <<"gushi">>>>

\* a line without a marker is ignored
C23_UnmarkedLineIgnored ==
    /\ xp.phase = "returned"
    /\ xp.llm = LLMSays(<<"mobile">>)
    /\ xp.query = <<"gushi">>
    /\ xp.result = <<xp.query>>

(***************************************************************************)
(* Properties of the caching of generated responses.                       *)
(***************************************************************************)
\* C24: a run that missed the cache and whose cache_response step writes
\* makes exactly one write, under the key of its raw query text, with its
\* final_response as value; a failed generation gives the apology as
\* final_response, which is written like any other; and a later run that
\* finds the apology under its query's key ends after check_cache with
\* that apology, from_cache = true and no call of the generator.
C24_ApologyIsCached ==
    [][\A r \in Runs :
        /\ CacheResponseReturns(r) =>
            /\ ~state[r].from_cache
            /\ calls'[r].cache_set = 1
            /\ cache' = set_cached_response(cache, state[r].query, state[r].final_response)
            /\ get_cached_response(cache', state[r].query)
                = [found |-> TRUE, value |-> state'[r].final_response]
        /\ (pc[r] = "generate" /\ Generate(r, LLMFails)) =>
            /\ pc'[r] = "cache_response"
            /\ state'[r].final_response = Apology
        /\ (/\ CheckCacheReturns(r)
            /\ get_cached_response(cache, state[r].query) = [found |-> TRUE, value |-> Apology])
           => /\ pc'[r] = "End"
              /\ state'[r].from_cache
              /\ state'[r].final_response = Apology
              /\ calls'[r].generator = 0 /\ calls'[r].cache_set = 0]_vars

\* one run cached the apology of its failed generation, a later run with the
\* same text answered with it from the cache
C24_Witness ==
    \E r, q \in Runs :
        /\ pc[q] = "End" /\ ~state[q].from_cache
        /\ state[q].final_response = Apology
        /\ calls[q].generator = 1 /\ calls[q].cache_set = 1
        /\ pc[r] = "End" /\ state[r].from_cache
        /\ state[r].query = state[q].query
        /\ state[r].final_response = Apology
        /\ calls[r].generator = 0
        /\ get_cached_response(cache, state[r].query) = [found |-> TRUE, value |-> Apology]

====
